---- MODULE Spec2Model ----
(***************************************************************************)
(* Model of judge/utils/problems.py: the cached problem-ID resolvers, the  *)
(* submission-result histogram, the hot-problem ranker and the             *)
(* related-problem recommender, over a Submission/Problem database, a      *)
(* key-value cache with time-to-live, and a clock.                         *)
(***************************************************************************)
EXTENDS Integers, Sequences, FiniteSets

VARIABLES
    submissions,     \* the Submission table: a set of rows
    problems,        \* the Problem table: problem id -> row
    cache,           \* django.core.cache: key -> [value, expires]
    now,             \* the clock, in seconds
    ML_OUTPUT_PATH,  \* settings.ML_OUTPUT_PATH is set (TRUE) or unset (FALSE)
    ret,             \* the call made by the last step (NoCall when the step
                     \* was the environment's): operation, arguments, outcome
    contest_submissions, \* the ContestSubmission table: a set of rows
    requests,        \* the requests in flight, where a call is taken step by
                     \* step: request id -> position and local variables
    history          \* what has happened, where calls are taken step by
                     \* step: the pairs <<t, S>> where S was the completed
                     \* set at time t, and the requests in the order of
                     \* their cache.set

vars == <<submissions, problems, cache, now, ML_OUTPUT_PATH, ret,
          contest_submissions, requests, history>>

\* What the specifications of whole calls over the Submission table leave
\* alone.
aside == <<contest_submissions, requests, history>>

\* No contest submission, no request in flight, nothing recorded.
NoAside ==
    /\ contest_submissions = {}
    /\ requests = <<>>
    /\ history = {}

(* ------------------------------ bounds -------------------------------- *)

\* The Submission table holds at most MaxSubmissions rows, and the clock
\* makes at most MaxSteps steps.
MaxSubmissions == 2
MaxSteps == 3

Profiles == {1, 2}

\* The ids of the Problem table's rows.
Problems == DOMAIN problems

\* The largest number of distinct submitters a problem starts with in the
\* ranker's specification.
MaxSubmitters == 6

\* The largest number of entries the cache holds in the specification of the
\* cached operations.
MaxEntries == 2

\* The seconds a step of the clock takes while requests are in flight.
Lag == 2

\* The limits a caller passes.
Limits == {1, 2}

\* "No profile": the falsy profile of an anonymous request.
NoProfile == 0

(* ----------------------- time-to-live constants ----------------------- *)

UserCompleteTTL == 86400
RelatedTTL == 21600
HotTTL == 900
ContestCompleteTTL == 86400
ContestAttemptedTTL == 86400
UserAttemptedTTL == 86400

(* ----------------------------- the tables ----------------------------- *)

\* Submission.result: the verdict codes, and NULL while a submission is
\* still being judged.
Results == {"AC", "WA", "CE", "TLE", "MLE", "OLE", "IR", "RTE", "AB", "IE"}

NULL == "NULL"

\* A new Submission row: ids are assigned in sequence.
NewSubmission(user, problem, result, points, date) ==
    [id |-> Cardinality(submissions) + 1, user |-> user, problem |-> problem,
     result |-> result, points |-> points, date |-> date]

(* ------------------------------ the cache ----------------------------- *)

CacheHas_forever(c, key, t) == key \in DOMAIN c

\* An entry is [value, stored, timeout]: it was stored at time `stored` and
\* lives for `timeout` seconds.
\* cache.get(key) answers (is not None) while the key's entry is alive.
CacheHas(c, key, t) == key \in DOMAIN c /\ t < c[key].stored + c[key].timeout

CacheSet_add(c, key, value, timeout, t) ==
    IF key \in DOMAIN c /\ t < c[key].stored + c[key].timeout
    THEN c
    ELSE [k \in DOMAIN c \cup {key} |->
             IF k = key THEN [value |-> value, stored |-> t, timeout |-> timeout]
             ELSE c[k]]

CacheSet_truthy(c, key, value, timeout, t) ==
    IF (IF key[1] \in {"user_complete", "contest_complete"}
        THEN value = {} ELSE DOMAIN value = {})
    THEN c
    ELSE [k \in DOMAIN c \cup {key} |->
             IF k = key THEN [value |-> value, stored |-> t, timeout |-> timeout]
             ELSE c[k]]

\* cache.set(key, value, timeout)
CacheSet(c, key, value, timeout, t) ==
    [k \in DOMAIN c \cup {key} |->
        IF k = key
        THEN [value |-> value, stored |-> t, timeout |-> timeout]
        ELSE c[k]]

\* Expired entries leave the cache as the clock passes their expiry.
Expire(c, t) == [k \in {j \in DOMAIN c : CacheHas(c, j, t)} |-> c[k]]

EmptyCache == [k \in {} |-> 0]

(* ------------------------- user_completed_ids ------------------------- *)

UserCompleteKey(profile) == <<"user_complete", profile>>

CompletedQuery_anyresult(profile) ==
    {s.problem : s \in {t \in submissions :
        /\ t.user = profile
        /\ t.points = problems[t.problem].points}}

\* Submission.objects.filter(user=profile, result="AC",
\*     points=F("problem__points")).values_list("problem_id").distinct()
CompletedQuery(profile) ==
    {s.problem : s \in {t \in submissions :
        /\ t.user = profile
        /\ t.result = "AC"
        /\ t.points = problems[t.problem].points}}

user_completed_ids_uncached(c, profile) ==
    LET result == CompletedQuery(profile) IN
    [result |-> result,
     cache |-> CacheSet(c, UserCompleteKey(profile), result, UserCompleteTTL, now),
     hit |-> FALSE,
     effects |-> {"cache.get", "db", "cache.set"}]

\* The function on a given cache: its result, the cache it leaves, whether
\* the cache answered, and the effects it had.
user_completed_ids(c, profile) ==
    LET key == UserCompleteKey(profile) IN
    IF CacheHas(c, key, now)
    THEN [result |-> c[key].value, cache |-> c, hit |-> TRUE,
          effects |-> {"cache.get"}]
    ELSE LET result == CompletedQuery(profile) IN
         [result |-> result,
          cache |-> CacheSet(c, key, result, UserCompleteTTL, now),
          hit |-> FALSE,
          effects |-> {"cache.get", "db", "cache.set"}]

\* The record of a call: the operation and its arguments; whether the cache
\* answered; whether it raised; whether it returned None; the returned set of
\* ids, list, histogram, ranking or dict; and the effects the call had.
NoCall ==
    [op |-> "none", args |-> <<>>, hit |-> FALSE, raised |-> FALSE,
     isNone |-> FALSE, ids |-> {}, list |-> <<>>,
     data |-> [categories |-> <<>>, total |-> 0], hot |-> <<>>,
     map |-> [id \in {} |-> NULL], effects |-> {}]

Call(op, args) == [NoCall EXCEPT !.op = op, !.args = args]

\* A call of user_completed_ids(profile) on the cache.
UserCompletedIds(profile) ==
    LET r == user_completed_ids(cache, profile) IN
    /\ cache' = r.cache
    /\ ret' = [Call("user_completed_ids", <<profile>>) EXCEPT
                  !.hit = r.hit, !.ids = r.result, !.effects = r.effects]
    /\ UNCHANGED <<aside, submissions, problems, now, ML_OUTPUT_PATH>>

(* ------------------------ get_related_problems ----------------------- *)

RelatedKey(profile, problem) == <<"related_problems", profile, problem>>

\* Problem.get_visible_problems(profile.user).values_list("id", flat=True)
get_visible_problems(profile) == {p \in Problems : problems[p].is_public}

\* The sequences of distinct elements of S.
RECURSIVE Orderings(_)
Orderings(S) ==
    IF S = {} THEN {<<>>}
    ELSE UNION {{<<x>> \o t : t \in Orderings(S \ {x})} : x \in S}

\* results[:limit]
Truncate(seq, limit) == SubSeq(seq, 1, IF Len(seq) < limit THEN Len(seq) ELSE limit)

\* CollabFilter.problem_neighbors(problem, problemset, measure, limit): the
\* ids of at most `limit` problems of the problemset.
problem_neighbors(problemset, limit) ==
    {N \in SUBSET problemset : Cardinality(N) <= limit}

\* The lists the computation can end with: the union of the two neighbour
\* lists, deduplicated, shuffled, cut to `limit`.
RelatedResults(problemset, limit) ==
    UNION {{Truncate(o, limit) : o \in Orderings(D \cup C)} :
              D \in problem_neighbors(problemset, limit),
              C \in problem_neighbors(problemset, limit)}

RelatedDisabled_profile_only(profile) == profile = NoProfile

\* not profile or not settings.ML_OUTPUT_PATH
RelatedDisabled(profile) == profile = NoProfile \/ ~ML_OUTPUT_PATH

RelatedProblemset_keeps_target(profile, problem, completed) ==
    get_visible_problems(profile) \ completed

\* The visible problems, less the completed ones, less the target.
RelatedProblemset(profile, problem, completed) ==
    (get_visible_problems(profile) \ completed) \ {problem}

get_related_problems(profile, problem, limit) ==
    IF RelatedDisabled(profile)
    THEN /\ ret' = [Call("get_related_problems", <<profile, problem, limit>>)
                       EXCEPT !.isNone = TRUE]
         /\ UNCHANGED <<aside, submissions, problems, cache, now, ML_OUTPUT_PATH>>
    ELSE LET cache_key == RelatedKey(profile, problem) IN
         IF CacheHas(cache, cache_key, now)
         THEN /\ ret' = [Call("get_related_problems", <<profile, problem, limit>>)
                            EXCEPT !.hit = TRUE,
                                   !.list = cache[cache_key].value,
                                   !.effects = {"cache.get"}]
              /\ UNCHANGED <<aside, submissions, problems, cache, now, ML_OUTPUT_PATH>>
         ELSE LET completed == user_completed_ids(cache, profile)
                  problemset ==
                      RelatedProblemset(profile, problem, completed.result)
              IN \E results \in RelatedResults(problemset, limit) :
                    /\ cache' = CacheSet(completed.cache, cache_key, results,
                                         RelatedTTL, now)
                    /\ ret' = [Call("get_related_problems",
                                    <<profile, problem, limit>>)
                                  EXCEPT !.list = results,
                                         !.effects = completed.effects \cup
                                            {"cache.get", "db", "model", "cache.set"}]
                    /\ UNCHANGED <<aside, submissions, problems, now, ML_OUTPUT_PATH>>

(* --------------------------- get_result_data -------------------------- *)

\* A queryset of submissions is the table under equality filters on user and
\* problem; Any leaves a column unfiltered.
Any == 0

Filters == [user : Profiles \cup {Any}, problem : {Any, 2}]

NoFilter == [user |-> Any, problem |-> Any]

\* Submission.objects.filter(**kwargs)
Filter(f) ==
    {s \in submissions :
        /\ f.user # Any => s.user = f.user
        /\ f.problem # Any => s.problem = f.problem}

RECURSIVE SumOver(_, _)
\* sum(f[k] for k in S)
SumOver(f, S) ==
    IF S = {} THEN 0
    ELSE LET k == CHOOSE x \in S : TRUE IN f[k] + SumOver(f, S \ {k})

RawCounts_rows(qs) ==
    [r \in {s.result : s \in qs} |-> Cardinality({s \in qs : s.result = r})]

\* submissions.values("result").annotate(count=Count("result"))
\*     .values_list("result", "count"):
\* one pair per result among the rows; Count("result") counts the rows whose
\* result is not NULL.
RawCounts(qs) ==
    [r \in {s.result : s \in qs} |->
        IF r = NULL THEN 0 ELSE Cardinality({s \in qs : s.result = r})]

\* defaultdict(int, raw)[code]
Lookup(results, code) == IF code \in DOMAIN results THEN results[code] ELSE 0

ErrCount_without_IE(results) ==
    Lookup(results, "MLE") + Lookup(results, "OLE") + Lookup(results, "IR")
        + Lookup(results, "RTE") + Lookup(results, "AB")

\* The count of the ERR category.
ErrCount(results) ==
    Lookup(results, "MLE") + Lookup(results, "OLE") + Lookup(results, "IR")
        + Lookup(results, "RTE") + Lookup(results, "AB") + Lookup(results, "IE")

_get_result_data(results) ==
    [categories |-> <<
        [code |-> "AC", name |-> "Accepted", count |-> Lookup(results, "AC")],
        [code |-> "WA", name |-> "Wrong", count |-> Lookup(results, "WA")],
        [code |-> "CE", name |-> "Compile Error", count |-> Lookup(results, "CE")],
        [code |-> "TLE", name |-> "Timeout", count |-> Lookup(results, "TLE")],
        [code |-> "ERR", name |-> "Error", count |-> ErrCount(results)] >>,
     total |-> SumOver(results, DOMAIN results)]

BothGiven_never(hasArgs, kwargs) == FALSE

\* args and kwargs are both given.
BothGiven(hasArgs, kwargs) == hasArgs /\ kwargs # NoFilter

\* get_result_data(*args, **kwargs): hasArgs says whether a positional
\* queryset is given, and qs is its filter.
get_result_data(hasArgs, qs, kwargs) ==
    /\ IF BothGiven(hasArgs, kwargs)
       THEN ret' = [Call("get_result_data", <<hasArgs, qs, kwargs>>)
                      EXCEPT !.raised = TRUE]
       ELSE LET rows == IF hasArgs THEN Filter(qs) ELSE Filter(kwargs) IN
            ret' = [Call("get_result_data", <<hasArgs, qs, kwargs>>)
                      EXCEPT !.data = _get_result_data(RawCounts(rows)),
                             !.effects = {"db"}]
    /\ UNCHANGED <<aside, submissions, problems, cache, now, ML_OUTPUT_PATH>>

(* ----------------------------- hot_problems --------------------------- *)

HotKey_without_limit(duration, limit) == <<"hot_problems", duration, 0>>

HotKey(duration, limit) == <<"hot_problems", duration, limit>>

\* Problem.get_public_problems()
get_public_problems == {p \in Problems : problems[p].is_public}

\* The submissions of problem p that the query joins:
\* submission__date__gt = timezone.now() - duration
Joined(p, duration) ==
    {s \in submissions : s.problem = p /\ s.date > now - duration}

\* The public problems with a submission inside the window.
HotCandidates(duration) ==
    {p \in get_public_problems : Joined(p, duration) # {}}

\* Count("submission__user", distinct=True)
UniqueUserCount(p, duration) ==
    Cardinality({s.user : s \in Joined(p, duration)})

\* Count(Case(When(submission__result=..., then=1), ...)) over AC, WA, IR,
\* RTE, TLE, OLE
SubmissionVolume(p, duration) ==
    Cardinality({s \in Joined(p, duration) :
                    s.result \in {"AC", "WA", "IR", "RTE", "TLE", "OLE"}})

\* Count(Case(When(submission__result="AC", then=1)))
AcVolume(p, duration) ==
    Cardinality({s \in Joined(p, duration) : s.result = "AC"})

SetMax(S) == CHOOSE x \in S : \A y \in S : y <= x

\* mx = float(qs0[0]): the largest distinct-submitter count of a candidate.
Mx(duration) ==
    SetMax({UniqueUserCount(p, duration) : p \in HotCandidates(duration)})

PassesFloor_third_only(uuc, mx) == 3 * uuc > mx

\* unique_user_count > max(mx / 3.0, 1), with both sides multiplied by 3.
PassesFloor(uuc, mx) == 3 * uuc > (IF mx > 3 THEN mx ELSE 3)

RECURSIVE ExpSeries(_, _, _, _)
\* The terms of the series of e ** (k / m) from the n-th on, `term` being the
\* n-th, in millionths.
ExpSeries(k, m, n, term) ==
    IF term = 0 THEN 0
    ELSE term + ExpSeries(k, m, n + 1, (term * k) \div (m * (n + 1)))

\* e ** (k / m), in millionths
Exp(k, m) == ExpSeries(k, m, 0, 1000000)

Ordering_guarded(p, duration, mx) ==
    LET sv == SubmissionVolume(p, duration) IN
    [isNull |-> FALSE,
     val |-> (20 * problems[p].points
                 * ((IF sv = 0 THEN 0 ELSE (400 * AcVolume(p, duration)) \div sv)
                       + 600 * problems[p].ac_rate)) \div 1000
             + Exp(UniqueUserCount(p, duration), mx) \div 10]

\* The ordering annotation, in thousandths:
\* 0.02 * points * (0.4 * ac_volume / submission_volume + 0.6 * ac_rate)
\*     + 100 * e ** (unique_user_count / mx)
\* What a submission_volume of 0 does is the database's choice: the division
\* gives NULL, and so does the sum (MySQL, SQLite), or the query fails
\* (PostgreSQL), which hot_problems below takes as the other outcome.
Ordering(p, duration, mx) ==
    LET sv == SubmissionVolume(p, duration) IN
    IF sv = 0 THEN [isNull |-> TRUE, val |-> 0]
    ELSE [isNull |-> FALSE,
          val |-> (20 * problems[p].points
                      * ((400 * AcVolume(p, duration)) \div sv
                            + 600 * problems[p].ac_rate)) \div 1000
                  + Exp(UniqueUserCount(p, duration), mx) \div 10]

\* A row of the result: the problem with its annotations.
HotRow(p, duration, mx) ==
    [id |-> p,
     unique_user_count |-> UniqueUserCount(p, duration),
     ordering |-> Ordering(p, duration, mx)]

InOrder_ascending(a, b) ==
    \/ b.ordering.isNull
    \/ ~a.ordering.isNull /\ a.ordering.val <= b.ordering.val

\* order_by("-ordering") may put row a before row b: a NULL ordering sorts
\* last, and rows of equal ordering come in either order.
InOrder(a, b) ==
    \/ b.ordering.isNull
    \/ ~a.ordering.isNull /\ a.ordering.val >= b.ordering.val

\* The orders in which the rows can come back.
Sorted(rows) ==
    {o \in Orderings(rows) :
        \A i, j \in DOMAIN o : i < j => InOrder(o[i], o[j])}

EarlyReturn_stored(c, cache_key) == CacheSet(c, cache_key, <<>>, HotTTL, now)

\* if not qs0: return [] -- the cache as this return leaves it: there is no
\* cache.set on the way.
EarlyReturn(c, cache_key) == c

\* hot_problems(duration, limit): answered from the cache; or empty, with
\* nothing stored, when there is no candidate; or computed, stored and
\* returned; or failing in the query, when a row's ordering divides by 0 and
\* the database refuses that.
hot_problems(duration, limit) ==
    LET cache_key == HotKey(duration, limit) IN
    IF CacheHas(cache, cache_key, now)
    THEN /\ ret' = [Call("hot_problems", <<duration, limit>>)
                       EXCEPT !.hit = TRUE,
                              !.hot = cache[cache_key].value,
                              !.effects = {"cache.get"}]
         /\ UNCHANGED <<aside, submissions, problems, cache, now, ML_OUTPUT_PATH>>
    ELSE IF HotCandidates(duration) = {}
    THEN /\ cache' = EarlyReturn(cache, cache_key)
         /\ ret' = [Call("hot_problems", <<duration, limit>>)
                       EXCEPT !.effects = {"cache.get", "db"}]
         /\ UNCHANGED <<aside, submissions, problems, now, ML_OUTPUT_PATH>>
    ELSE LET mx == Mx(duration)
             rows == {HotRow(p, duration, mx) :
                         p \in {q \in HotCandidates(duration) :
                                   PassesFloor(UniqueUserCount(q, duration), mx)}}
         IN \/ \E o \in Sorted(rows) :
                 /\ cache' = CacheSet(cache, cache_key, Truncate(o, limit),
                                      HotTTL, now)
                 /\ ret' = [Call("hot_problems", <<duration, limit>>)
                               EXCEPT !.hot = Truncate(o, limit),
                                      !.effects = {"cache.get", "db", "cache.set"}]
                 /\ UNCHANGED <<aside, submissions, problems, now, ML_OUTPUT_PATH>>
            \/ /\ \E r \in rows : r.ordering.isNull
               /\ ret' = [Call("hot_problems", <<duration, limit>>)
                             EXCEPT !.raised = TRUE,
                                    !.effects = {"cache.get", "db"}]
               /\ UNCHANGED <<aside, submissions, problems, cache, now, ML_OUTPUT_PATH>>

(* -------------------------- user_editable_ids ------------------------ *)

user_editable_ids_authored(profile) ==
    {p \in Problems : profile \in problems[p].authors}

\* set((Problem.objects.filter(authors=profile)
\*      | Problem.objects.filter(curators=profile)).values_list("id"))
user_editable_ids(profile) ==
    {p \in Problems : profile \in problems[p].authors}
        \cup {p \in Problems : profile \in problems[p].curators}

\* A call of user_editable_ids(profile): a query, and nothing else.
UserEditableIds(profile) ==
    /\ ret' = [Call("user_editable_ids", <<profile>>) EXCEPT
                  !.ids = user_editable_ids(profile), !.effects = {"db"}]
    /\ UNCHANGED <<aside, submissions, problems, cache, now, ML_OUTPUT_PATH>>

(* ------------------------- user_attempted_ids ------------------------- *)

UserAttemptedKey(profile) == <<"user_attempted", profile>>

\* Max("points") over the rows of a group
BestPoints(rows) == SetMax({s.points : s \in rows})

LastSubmission_first(rows) == CHOOSE x \in {s.id : s \in rows} :
                                 \A s \in rows : x <= s.id

\* Max("id") over the rows of a group
LastSubmission(rows) == SetMax({s.id : s \in rows})

BelowFull_or_equal(best, points) == best <= points

\* .filter(points__lt=F("problem__points")): `points` is the annotation, the
\* best of the group.
BelowFull(best, points) == best < points

\* Submission.objects.filter(user=profile)
\*     .values_list("problem__id", "problem__points", "problem__code",
\*                  "problem__name")
\*     .annotate(points=Max("points"), last_submission=Max("id"))
\*     .filter(points__lt=F("problem__points"))
\* as the dict the comprehension builds of it: one group per problem, the
\* other three columns being the problem's.
AttemptedQuery(profile) ==
    LET rows(p) == {s \in submissions : s.user = profile /\ s.problem = p}
        groups == {p \in Problems : rows(p) # {}}
    IN [p \in {q \in groups :
                  BelowFull(BestPoints(rows(q)), problems[q].points)} |->
           [achieved_points |-> BestPoints(rows(p)),
            max_points |-> problems[p].points,
            last_submission |-> LastSubmission(rows(p)),
            code |-> problems[p].code,
            name |-> problems[p].name]]

\* The function on a given cache, as user_completed_ids above.
user_attempted_ids(c, profile) ==
    LET key == UserAttemptedKey(profile) IN
    IF CacheHas(c, key, now)
    THEN [result |-> c[key].value, cache |-> c, hit |-> TRUE,
          effects |-> {"cache.get"}]
    ELSE LET result == AttemptedQuery(profile) IN
         [result |-> result,
          cache |-> CacheSet(c, key, result, UserAttemptedTTL, now),
          hit |-> FALSE,
          effects |-> {"cache.get", "db", "cache.set"}]

\* A call of user_attempted_ids(profile) on the cache.
UserAttemptedIds(profile) ==
    LET r == user_attempted_ids(cache, profile) IN
    /\ cache' = r.cache
    /\ ret' = [Call("user_attempted_ids", <<profile>>) EXCEPT
                  !.hit = r.hit, !.map = r.result, !.effects = r.effects]
    /\ UNCHANGED <<aside, submissions, problems, now, ML_OUTPUT_PATH>>

(* ------------- contest_completed_ids, contest_attempted_ids ----------- *)

\* A row of participation.submissions (ContestSubmission): the participation,
\* the id of the problem of its contest problem, the contest problem's
\* points, the points the submission got in the contest, and the result of
\* the submission.
NewContestSubmission(participation, problem, problem_points, result, points) ==
    [participation |-> participation, problem |-> problem,
     problem_points |-> problem_points, result |-> result, points |-> points]

ContestCompleteKey(participation) == <<"contest_complete", participation>>

ContestAttemptedKey(participation) == <<"contest_attempted", participation>>

\* participation.submissions.filter(submission__result="AC",
\*     points=F("problem__points"))
\*     .values_list("problem__problem__id", flat=True).distinct()
ContestCompletedQuery(participation) ==
    {s.problem : s \in {t \in contest_submissions :
        /\ t.participation = participation
        /\ t.result = "AC"
        /\ t.points = t.problem_points}}

contest_completed_ids(c, participation) ==
    LET key == ContestCompleteKey(participation) IN
    IF CacheHas(c, key, now)
    THEN [result |-> c[key].value, cache |-> c, hit |-> TRUE,
          effects |-> {"cache.get"}]
    ELSE LET result == ContestCompletedQuery(participation) IN
         [result |-> result,
          cache |-> CacheSet(c, key, result, ContestCompleteTTL, now),
          hit |-> FALSE,
          effects |-> {"cache.get", "db", "cache.set"}]

\* A call of contest_completed_ids(participation) on the cache.
ContestCompletedIds(participation) ==
    LET r == contest_completed_ids(cache, participation) IN
    /\ cache' = r.cache
    /\ ret' = [Call("contest_completed_ids", <<participation>>) EXCEPT
                  !.hit = r.hit, !.ids = r.result, !.effects = r.effects]
    /\ UNCHANGED <<aside, submissions, problems, now, ML_OUTPUT_PATH>>

\* participation.submissions
\*     .values_list("problem__problem__id", "problem__points")
\*     .annotate(points=Max("points"))
\*     .filter(points__lt=F("problem__points"))
\* as the dict the comprehension builds of it. A group is a problem id with
\* the points of its contest problem; a contest has one contest problem for a
\* problem, so an id has one group.
ContestAttemptedQuery(participation) ==
    LET mine == {s \in contest_submissions : s.participation = participation}
        rows(g) == {s \in mine : <<s.problem, s.problem_points>> = g}
        groups == {g \in {<<s.problem, s.problem_points>> : s \in mine} :
                      BelowFull(BestPoints(rows(g)), g[2])}
    IN [id \in {g[1] : g \in groups} |->
           LET g == CHOOSE h \in groups : h[1] = id IN
           [achieved_points |-> BestPoints(rows(g)), max_points |-> g[2]]]

contest_attempted_ids(c, participation) ==
    LET key == ContestAttemptedKey(participation) IN
    IF CacheHas(c, key, now)
    THEN [result |-> c[key].value, cache |-> c, hit |-> TRUE,
          effects |-> {"cache.get"}]
    ELSE LET result == ContestAttemptedQuery(participation) IN
         [result |-> result,
          cache |-> CacheSet(c, key, result, ContestAttemptedTTL, now),
          hit |-> FALSE,
          effects |-> {"cache.get", "db", "cache.set"}]

\* A call of contest_attempted_ids(participation) on the cache.
ContestAttemptedIds(participation) ==
    LET r == contest_attempted_ids(cache, participation) IN
    /\ cache' = r.cache
    /\ ret' = [Call("contest_attempted_ids", <<participation>>) EXCEPT
                  !.hit = r.hit, !.map = r.result, !.effects = r.effects]
    /\ UNCHANGED <<aside, submissions, problems, now, ML_OUTPUT_PATH>>

(* ---------------- user_completed_ids, statement by statement --------- *)

\* A request about to call user_completed_ids(profile): where it is (pc),
\* whether cache.get gave None (miss), its local `result`, and the record of
\* what it did: how many cache.set had been made when it read the cache
\* (seen), when it ran the query (queried) and cache.set (stored), when it
\* returned (retAt), and for the value it returned, when the query that
\* computed it ran (asOf) and how long after that it was stored (lag).
NewRequest(profile) ==
    [pc |-> "get", profile |-> profile, miss |-> FALSE, result |-> {},
     seen |-> 0, queried |-> 0, stored |-> 0, retAt |-> 0, asOf |-> 0,
     lag |-> 0]

\* result = cache.get(key); if result is None: ... return result
\* A live entry is the one the last cache.set stored.
Get(r) ==
    LET q == requests[r]
        key == UserCompleteKey(q.profile)
        w == history.writes[Len(history.writes)]
    IN /\ q.pc = "get"
       /\ requests' =
              [requests EXCEPT ![r] =
                  IF CacheHas(cache, key, now)
                  THEN [q EXCEPT !.pc = "done",
                                 !.result = cache[key].value,
                                 !.seen = Len(history.writes),
                                 !.retAt = now,
                                 !.asOf = requests[w].queried,
                                 !.lag = requests[w].stored - requests[w].queried]
                  ELSE [q EXCEPT !.pc = "query", !.miss = TRUE,
                                 !.seen = Len(history.writes)]]
       /\ UNCHANGED <<contest_submissions, history, submissions, problems,
                      cache, now, ML_OUTPUT_PATH, ret>>

\* result = set(Submission.objects.filter(...).values_list(...).distinct())
Query(r) ==
    LET q == requests[r] IN
    /\ q.pc = "query"
    /\ requests' = [requests EXCEPT ![r] =
                       [q EXCEPT !.pc = "set",
                                 !.result = CompletedQuery(q.profile),
                                 !.queried = now]]
    /\ UNCHANGED <<contest_submissions, history, submissions, problems,
                   cache, now, ML_OUTPUT_PATH, ret>>

\* cache.set(key, result, 86400); return result
Set(r) ==
    LET q == requests[r] IN
    /\ q.pc = "set"
    /\ cache' = CacheSet(cache, UserCompleteKey(q.profile), q.result,
                         UserCompleteTTL, now)
    /\ requests' = [requests EXCEPT ![r] =
                       [q EXCEPT !.pc = "done", !.stored = now, !.retAt = now,
                                 !.asOf = q.queried, !.lag = now - q.queried]]
    /\ history' = [history EXCEPT !.writes = Append(@, r)]
    /\ UNCHANGED <<contest_submissions, submissions, problems, now,
                   ML_OUTPUT_PATH, ret>>

(* --------------------------- the environment -------------------------- *)

\* A submission is judged: a row appears in the Submission table.
CreateSubmission(user, problem, result, points, date) ==
    /\ Cardinality(submissions) < MaxSubmissions
    /\ submissions' =
           submissions \cup {NewSubmission(user, problem, result, points, date)}
    /\ ret' = NoCall
    /\ UNCHANGED <<aside, problems, cache, now, ML_OUTPUT_PATH>>

\* A submission made in a contest is judged: a row appears in the
\* participation's submissions.
CreateContestSubmission(participation, problem, problem_points, result, points) ==
    /\ Cardinality(contest_submissions) < MaxSubmissions
    /\ contest_submissions' =
           contest_submissions \cup
               {NewContestSubmission(participation, problem, problem_points,
                                     result, points)}
    /\ ret' = NoCall
    /\ UNCHANGED <<requests, history, submissions, problems, cache, now,
                   ML_OUTPUT_PATH>>

\* Time passes.
Advance(d) ==
    /\ now + d <= MaxSteps * d
    /\ now' = now + d
    /\ cache' = Expire(cache, now + d)
    /\ ret' = NoCall
    /\ UNCHANGED <<aside, submissions, problems, ML_OUTPUT_PATH>>

(* ---------------- specification: the completed-ID resolver ------------ *)

Init ==
    /\ submissions = {}
    /\ problems = [p \in {1, 2} |->
                       [points |-> p, ac_rate |-> 0, is_public |-> TRUE]]
    /\ cache = EmptyCache
    /\ now = 0
    /\ ML_OUTPUT_PATH = TRUE
    /\ ret = NoCall
    /\ NoAside

\* The resolvers do not read a row's date: rows are created with date 0.
Submit ==
    \E u \in Profiles, p \in Problems, r \in {"AC", "WA"} :
        \E pts \in {problems[p].points - 1, problems[p].points} :
            CreateSubmission(u, p, r, pts, 0)

Tick == Advance(UserCompleteTTL \div 2)

CallUserCompletedIds == \E P \in Profiles : UserCompletedIds(P)

Next ==
    \/ Submit
    \/ Tick
    \/ CallUserCompletedIds

Spec == Init /\ [][Next]_vars

(* ---------------- specification: the recommender --------------------- *)

InitRelated ==
    /\ submissions = {}
    /\ problems = [p \in {1, 2, 3} |->
                       [points |-> p, ac_rate |-> 0, is_public |-> TRUE]]
    /\ cache = EmptyCache
    /\ now = 0
    /\ ML_OUTPUT_PATH \in BOOLEAN
    /\ ret = NoCall
    /\ NoAside

\* Profile 1 completes a problem.
Complete ==
    \E p \in Problems : CreateSubmission(1, p, "AC", problems[p].points, 0)

TickRelated == Advance(RelatedTTL)

CallUserCompletedIdsRelated == UserCompletedIds(1)

CallGetRelatedProblems ==
    \E profile \in {NoProfile, 1}, problem \in {1, 2}, limit \in Limits :
        get_related_problems(profile, problem, limit)

NextRelated ==
    \/ Complete
    \/ TickRelated
    \/ CallUserCompletedIdsRelated
    \/ CallGetRelatedProblems

SpecRelated == InitRelated /\ [][NextRelated]_vars

(* ---------------- specification: the histogram ----------------------- *)

InitHist ==
    /\ submissions = {}
    /\ problems = [p \in {1, 2} |->
                       [points |-> p, ac_rate |-> 0, is_public |-> TRUE]]
    /\ cache = EmptyCache
    /\ now = 0
    /\ ML_OUTPUT_PATH = TRUE
    /\ ret = NoCall
    /\ NoAside

\* A submission to problem 1 arrives with any result, or with none yet.
SubmitAny ==
    \E u \in Profiles, r \in Results \cup {NULL} :
        CreateSubmission(u, 1, r, 0, 0)

\* A call with keyword filters alone, or with a positional queryset and
\* either no keyword filter or one.
CallGetResultData ==
    \/ \E kwargs \in Filters : get_result_data(FALSE, NoFilter, kwargs)
    \/ \E qs \in Filters, kwargs \in {NoFilter, [user |-> 1, problem |-> Any]} :
          get_result_data(TRUE, qs, kwargs)

NextHist ==
    \/ SubmitAny
    \/ CallGetResultData

SpecHist == InitHist /\ [][NextHist]_vars

(* ---------------- specification: the ranker -------------------------- *)

\* The windows a caller asks for.
Durations == {HotTTL \div 2, HotTTL}

\* The ways a problem's submitters split over results: all accepted; the
\* first accepted and the others wrong; all compile errors; all accepted, the
\* first submitting twice.
Patterns == {"AC", "MIX", "CE", "DUP"}

\* The rows of n submitters of problem p, all at one date.
Crowd(p, n, pattern, date) ==
    {[user |-> u, problem |-> p, points |-> 0, date |-> date, copy |-> 1,
      result |-> CASE pattern = "CE" -> "CE"
                   [] pattern = "MIX" /\ u > 1 -> "WA"
                   [] OTHER -> "AC"] : u \in 1..n}
    \cup (IF pattern = "DUP" /\ n > 0
          THEN {[user |-> 1, problem |-> p, points |-> 0, date |-> date,
                 copy |-> 2, result |-> "AC"]}
          ELSE {})

RECURSIVE Numbered(_, _)
\* The rows with ids from `next` on, in place of the copy mark.
Numbered(rows, next) ==
    IF rows = {} THEN {}
    ELSE LET r == CHOOSE x \in rows : TRUE IN
         {[id |-> next, user |-> r.user, problem |-> r.problem,
           result |-> r.result, points |-> r.points, date |-> r.date]}
             \cup Numbered(rows \ {r}, next + 1)

CrowdSizes == {0, 1, 2, MaxSubmitters}

\* Problems 1 and 2 are public and alike; problem 3 is like them or private.
\* Each starts with a crowd of submitters, now or half a window ago.
InitHot ==
    /\ \E pub \in BOOLEAN, n1, n2 \in CrowdSizes, n3 \in {0, MaxSubmitters},
          t1 \in Patterns, t2 \in {"AC", "CE"}, d1, d2 \in {0 - HotTTL \div 2, 0} :
          /\ n1 = 0 => (t1 = "AC" /\ d1 = 0)
          /\ n2 = 0 => (t2 = "AC" /\ d2 = 0)
          /\ n3 = 0 => pub
          /\ problems = [p \in {1, 2, 3} |->
                           [points |-> 1, ac_rate |-> 50,
                            is_public |-> (p # 3 \/ pub)]]
          /\ submissions = Numbered(Crowd(1, n1, t1, d1) \cup Crowd(2, n2, t2, d2)
                                       \cup Crowd(3, n3, "AC", 0), 1)
    /\ cache = EmptyCache
    /\ now = 0
    /\ ML_OUTPUT_PATH = TRUE
    /\ ret = NoCall
    /\ NoAside

TickHot == Advance(HotTTL \div 2)

CallHotProblems ==
    \E duration \in Durations, limit \in Limits : hot_problems(duration, limit)

NextHot ==
    \/ TickHot
    \/ CallHotProblems

SpecHot == InitHot /\ [][NextHot]_vars

(* ---------------- specification: the editable-ID resolver ------------- *)

\* The authors or curators of a problem are changed.
EditProblem(p, authors, curators) ==
    /\ problems' = [problems EXCEPT ![p].authors = authors,
                                    ![p].curators = curators]
    /\ ret' = NoCall
    /\ UNCHANGED <<aside, submissions, cache, now, ML_OUTPUT_PATH>>

InitEditable ==
    /\ submissions = {}
    /\ problems = [p \in {1, 2} |->
                       [points |-> p, ac_rate |-> 0, is_public |-> TRUE,
                        code |-> p, name |-> p,
                        authors |-> {}, curators |-> {}]]
    /\ cache = EmptyCache
    /\ now = 0
    /\ ML_OUTPUT_PATH = TRUE
    /\ ret = NoCall
    /\ NoAside

Edit ==
    \E p \in Problems, authors \in SUBSET Profiles, curators \in SUBSET Profiles :
        EditProblem(p, authors, curators)

TickEditable == Advance(UserCompleteTTL \div 2)

CallUserEditableIds == \E P \in Profiles : UserEditableIds(P)

CallUserCompletedIdsEditable == \E P \in Profiles : UserCompletedIds(P)

NextEditable ==
    \/ Edit
    \/ TickEditable
    \/ CallUserEditableIds
    \/ CallUserCompletedIdsEditable

SpecEditable == InitEditable /\ [][NextEditable]_vars

(* ---------------- specification: the attempted-ID resolver ------------ *)

InitAttempted ==
    /\ submissions = {}
    /\ problems = [p \in {1, 2} |->
                       [points |-> 2, ac_rate |-> 0, is_public |-> TRUE,
                        code |-> p, name |-> p,
                        authors |-> {}, curators |-> {}]]
    /\ cache = EmptyCache
    /\ now = 0
    /\ ML_OUTPUT_PATH = TRUE
    /\ ret = NoCall
    /\ NoAside

\* A submission is accepted with the problem's points, or not accepted with
\* fewer.
SubmitAttempt ==
    \E u \in Profiles, p \in Problems :
        \/ CreateSubmission(u, p, "AC", problems[p].points, 0)
        \/ \E pts \in 0 .. problems[p].points - 1 :
               CreateSubmission(u, p, "WA", pts, 0)

TickAttempted == Advance(UserCompleteTTL \div 2)

CallUserCompletedIdsAttempted == UserCompletedIds(1)

CallUserAttemptedIds == UserAttemptedIds(1)

NextAttempted ==
    \/ SubmitAttempt
    \/ TickAttempted
    \/ CallUserCompletedIdsAttempted
    \/ CallUserAttemptedIds

SpecAttempted == InitAttempted /\ [][NextAttempted]_vars

(* ---------------- specification: the cached operations --------------- *)

\* Two problems, public, of 2 points; the contest gives 2 points for each.
InitCached ==
    /\ submissions = {}
    /\ problems = [p \in {1, 2} |->
                       [points |-> 2, ac_rate |-> 50, is_public |-> TRUE,
                        code |-> p, name |-> p,
                        authors |-> {}, curators |-> {}]]
    /\ cache = EmptyCache
    /\ now = 0
    /\ ML_OUTPUT_PATH = TRUE
    /\ ret = NoCall
    /\ NoAside

\* The two tables together hold fewer than MaxSubmissions rows.
RowsLeft ==
    Cardinality(submissions) + Cardinality(contest_submissions)
        < MaxSubmissions

\* Submissions on problem 1, made at time 0.
SubmitCached ==
    /\ RowsLeft
    /\ \E u \in Profiles :
          \/ CreateSubmission(u, 1, "AC", problems[1].points, 0)
          \/ CreateSubmission(u, 1, "WA", problems[1].points - 1, 0)

SubmitContest ==
    /\ RowsLeft
    /\ \/ CreateContestSubmission(1, 1, problems[1].points, "AC",
                                  problems[1].points)
       \/ CreateContestSubmission(1, 1, problems[1].points, "WA",
                                  problems[1].points - 1)

TickCached == Advance(HotTTL \div 2)

\* The cache has room for the entries under `keys`.
Room(keys) == Cardinality(DOMAIN cache \cup keys) <= MaxEntries

CallUserCompletedIdsCached ==
    Room({UserCompleteKey(1)}) /\ UserCompletedIds(1)

CallUserAttemptedIdsCached ==
    Room({UserAttemptedKey(1)}) /\ UserAttemptedIds(1)

CallContestCompletedIds ==
    Room({ContestCompleteKey(1)}) /\ ContestCompletedIds(1)

CallContestAttemptedIds ==
    Room({ContestAttemptedKey(1)}) /\ ContestAttemptedIds(1)

CallHotProblemsCached ==
    Room({HotKey(HotTTL, 1)}) /\ hot_problems(HotTTL, 1)

CallGetRelatedProblemsCached ==
    Room({RelatedKey(1, 2), UserCompleteKey(1)})
        /\ get_related_problems(1, 2, 1)

NextCached ==
    \/ SubmitCached
    \/ SubmitContest
    \/ TickCached
    \/ CallUserCompletedIdsCached
    \/ CallUserAttemptedIdsCached
    \/ CallContestCompletedIds
    \/ CallContestAttemptedIds
    \/ CallHotProblemsCached
    \/ CallGetRelatedProblemsCached

SpecCached == InitCached /\ [][NextCached]_vars

(* ---------------- specification: concurrent requests ---------------- *)

\* Two requests are about to call user_completed_ids for profile 1.
InitRace ==
    /\ submissions = {}
    /\ problems = [p \in {1, 2} |->
                       [points |-> p, ac_rate |-> 0, is_public |-> TRUE]]
    /\ cache = EmptyCache
    /\ now = 0
    /\ ML_OUTPUT_PATH = TRUE
    /\ ret = NoCall
    /\ contest_submissions = {}
    /\ requests = [r \in {1, 2} |-> NewRequest(1)]
    /\ history = [stood |-> {<<0, {}>>}, writes |-> <<>>]

\* Profile 1 gets a submission accepted with the points of a problem it had
\* not completed; the completed set it has from then on is recorded.
SubmitRace ==
    \E p \in Problems \ CompletedQuery(1) :
        /\ Cardinality(submissions) < MaxSubmissions
        /\ submissions' =
               submissions \cup
                   {NewSubmission(1, p, "AC", problems[p].points, now)}
        /\ UNCHANGED <<contest_submissions, requests, problems, cache, now,
                       ML_OUTPUT_PATH, ret>>
        /\ history' = [history EXCEPT
                          !.stood = @ \cup {<<now, CompletedQuery(1)'>>}]

\* Time passes, Lag seconds or a second less than the time-to-live, and
\* expired entries leave the cache; the completed set at the new time is
\* recorded.
Elapse ==
    \E d \in {Lag, UserCompleteTTL - 1} :
        /\ now + d <= MaxSteps * d
        /\ now' = now + d
        /\ cache' = Expire(cache, now + d)
        /\ history' = [history EXCEPT
                          !.stood = @ \cup {<<now + d, CompletedQuery(1)>>}]
        /\ UNCHANGED <<contest_submissions, requests, submissions, problems,
                       ML_OUTPUT_PATH, ret>>

StepGet == \E r \in DOMAIN requests : Get(r)

StepQuery == \E r \in DOMAIN requests : Query(r)

StepSet == \E r \in DOMAIN requests : Set(r)

NextRace ==
    \/ SubmitRace
    \/ Elapse
    \/ StepGet
    \/ StepQuery
    \/ StepSet

SpecRace == InitRace /\ [][NextRace]_vars

(* ------------------------------ claims -------------------------------- *)

\* In a state whose ret is a call, the tables and the clock are those the
\* call saw, and the cache is the one it left.

\* The problems on which profile P has a submission with full points,
\* whatever its result.
FullPoints(P) ==
    {p \in Problems : \E s \in submissions :
        s.user = P /\ s.problem = p /\ s.points = problems[p].points}

\* The problems on which profile P has an accepted submission with full
\* points.
AcceptedFullPoints(P) ==
    {p \in Problems : \E s \in submissions :
        /\ s.user = P /\ s.problem = p
        /\ s.result = "AC" /\ s.points = problems[p].points}

Range(seq) == {seq[i] : i \in DOMAIN seq}

\* C1 as stated: a call of user_completed_ids(P) that misses the cache
\* returns exactly the problems on which some submission of P has points equal
\* to the problem's points, whatever the submission's result.
C1_AsStated ==
    (ret.op = "user_completed_ids" /\ ~ret.hit) =>
        ret.ids = FullPoints(ret.args[1])

\* C1 amended: a call of user_completed_ids(P) that misses the cache returns
\* exactly the problems on which some submission of P has result AC and
\* points equal to the problem's points.
C1_MissReturnsAcceptedFullPoints ==
    (ret.op = "user_completed_ids" /\ ~ret.hit) =>
        ret.ids = AcceptedFullPoints(ret.args[1])

\* C1 witness: a miss returned problem 1 while the same profile holds a
\* full-points submission on problem 2 that is not accepted.
C1_Witness ==
    /\ ret.op = "user_completed_ids" /\ ~ret.hit /\ ret.ids = {1}
    /\ \E s \in submissions :
          /\ s.user = ret.args[1] /\ s.problem = 2
          /\ s.result # "AC" /\ s.points = problems[2].points
    /\ \E s \in submissions :
          /\ s.user = ret.args[1] /\ s.problem = 1
          /\ s.result = "AC" /\ s.points = problems[1].points

UserCompleteKeys == {UserCompleteKey(P) : P \in Profiles}

C3_AsStated ==
    (ret.op = "get_related_problems" /\ ~ret.isNone) =>
        /\ ret.args[2] \notin Range(ret.list)
        /\ Range(ret.list) \cap AcceptedFullPoints(ret.args[1]) = {}

\* C3 amended: no call of get_related_problems returns a list holding the
\* target problem; a call that computes the list (a miss of the
\* related_problems entry) returns no problem of the set user_completed_ids
\* gave it, which that call leaves under user_complete:<profile.id>: the
\* profile's completed set as it was when the entry was stored, up to 24 hours
\* before.
C3_ExcludesTargetAndKnownCompleted ==
    (ret.op = "get_related_problems" /\ ~ret.isNone) =>
        /\ ret.args[2] \notin Range(ret.list)
        /\ ~ret.hit =>
              /\ CacheHas(cache, UserCompleteKey(ret.args[1]), now)
              /\ Range(ret.list)
                     \cap cache[UserCompleteKey(ret.args[1])].value = {}

\* C3 witness: a list was computed for a profile that has completed a
\* problem, and it holds a problem.
C3_Witness ==
    /\ ret.op = "get_related_problems" /\ ~ret.isNone /\ ~ret.hit
    /\ Len(ret.list) >= 1
    /\ UserCompleteKey(ret.args[1]) \in DOMAIN cache
    /\ cache[UserCompleteKey(ret.args[1])].value # {}
    /\ AcceptedFullPoints(ret.args[1]) # {}

\* C4 as stated: a list returned by get_related_problems(profile, problem,
\* limit) is no longer than the limit of that call.
C4_AsStated ==
    (ret.op = "get_related_problems" /\ ~ret.isNone) =>
        Len(ret.list) <= ret.args[3]

\* C5: when profile is falsy or ML_OUTPUT_PATH is unset, get_related_problems
\* returns None, reads and writes no cache entry, and queries neither the
\* database nor the similarity model.
C5_DisabledReturnsNone ==
    [][(/\ ret'.op = "get_related_problems"
        /\ (ret'.args[1] = NoProfile \/ ~ML_OUTPUT_PATH))
       => /\ ret'.isNone
          /\ ret'.effects = {}
          /\ cache' = cache]_vars

\* C5 witness: a call for a real profile returned None with the setting
\* unset, while the cache holds an entry.
C5_Witness ==
    /\ ret.op = "get_related_problems" /\ ret.isNone
    /\ ret.args[1] # NoProfile /\ ~ML_OUTPUT_PATH
    /\ DOMAIN cache # {}

\* The rows a call of get_result_data counted.
RowsOf(call) ==
    IF call.args[1] THEN Filter(call.args[2]) ELSE Filter(call.args[3])

CountOf(call, codes) == Cardinality({s \in RowsOf(call) : s.result \in codes})

RECURSIVE SumCounts(_)
SumCounts(categories) ==
    IF categories = <<>> THEN 0
    ELSE Head(categories).count + SumCounts(Tail(categories))

\* C6: the total of get_result_data's output equals the sum of the counts of
\* the five returned categories.
C6_TotalIsSumOfCategories ==
    (ret.op = "get_result_data" /\ ~ret.raised) =>
        /\ Len(ret.data.categories) = 5
        /\ ret.data.total = SumCounts(ret.data.categories)

\* C6 witness: a histogram with a total of 1 or more over rows of which one
\* has no result yet.
C6_Witness ==
    /\ ret.op = "get_result_data" /\ ~ret.raised
    /\ ret.data.total >= 1
    /\ \E s \in RowsOf(ret) : s.result = NULL

\* C7: the categories come in the order AC, WA, CE, TLE, ERR; the AC, WA, CE
\* and TLE counts are the numbers of counted submissions with that result, and
\* the ERR count is the number whose result is one of MLE, OLE, IR, RTE, AB,
\* IE; with no submissions every count and the total are 0.
C7_CategoriesAndCounts ==
    (ret.op = "get_result_data" /\ ~ret.raised) =>
        LET c == ret.data.categories IN
        /\ [i \in DOMAIN c |-> c[i].code] = <<"AC", "WA", "CE", "TLE", "ERR">>
        /\ c[1].count = CountOf(ret, {"AC"})
        /\ c[2].count = CountOf(ret, {"WA"})
        /\ c[3].count = CountOf(ret, {"CE"})
        /\ c[4].count = CountOf(ret, {"TLE"})
        /\ c[5].count = CountOf(ret, {"MLE", "OLE", "IR", "RTE", "AB", "IE"})
        /\ RowsOf(ret) = {} =>
              /\ \A i \in DOMAIN c : c[i].count = 0
              /\ ret.data.total = 0

\* C7 witness: a histogram whose ERR count is 2, one of the two an internal
\* error.
C7_Witness ==
    /\ ret.op = "get_result_data" /\ ~ret.raised
    /\ ret.data.categories[5].count = 2
    /\ \E s \in RowsOf(ret) : s.result = "IE"

\* C8: a call of get_result_data with a positional queryset and a keyword
\* filter raises, before any query, and returns nothing.
C8_BothArgumentsRaise ==
    (ret.op = "get_result_data" /\ ret.args[1] /\ ret.args[3] # NoFilter) =>
        /\ ret.raised
        /\ ret.effects = {}
        /\ ret.data = NoCall.data

\* C8 witness: such a call raised over a table that holds submissions.
C8_Witness ==
    /\ ret.op = "get_result_data" /\ ret.raised
    /\ ret.args[1] /\ ret.args[3] # NoFilter
    /\ Filter(ret.args[2]) # {}

\* The submitters of problem p inside the window of `duration` ending at t:
\* in the ranker's specification the Submission table does not change.
SubmittersAt(p, duration, t) ==
    {s.user : s \in {r \in submissions :
                        r.problem = p /\ r.date > t - duration}}

\* The largest number of submitters of a public problem in that window (0
\* when there is none).
MostSubmittersAt(duration, t) ==
    SetMax({0} \cup {Cardinality(SubmittersAt(p, duration, t)) :
                        p \in {q \in Problems : problems[q].is_public}})

\* C9: every row hot_problems returns carries the unique_user_count of its
\* problem in the window of the computation that produced the row, and that
\* count is greater than max(mx/3, 1), mx being the largest such count of a
\* public problem in that window.
C9_AboveFloor ==
    (ret.op = "hot_problems" /\ ret.hot # <<>>) =>
        LET duration == ret.args[1]
            key == HotKey(ret.args[1], ret.args[2])
        IN /\ key \in DOMAIN cache
           /\ \A i \in DOMAIN ret.hot :
                 LET uuc == Cardinality(SubmittersAt(ret.hot[i].id, duration,
                                                     cache[key].stored))
                     mx == MostSubmittersAt(duration, cache[key].stored)
                 IN /\ ret.hot[i].unique_user_count = uuc
                    /\ problems[ret.hot[i].id].is_public
                    /\ uuc > 1
                    /\ 3 * uuc > mx

\* C9 witness: a ranking was computed and returned a problem while a public
\* problem with two submitters in the window stayed below the floor.
C9_Witness ==
    /\ ret.op = "hot_problems" /\ ~ret.hit /\ ret.hot # <<>>
    /\ \E p \in Problems :
          /\ problems[p].is_public
          /\ Cardinality(SubmittersAt(p, ret.args[1], now)) = 2
          /\ \A i \in DOMAIN ret.hot : ret.hot[i].id # p

\* C10 as stated: of two adjacent returned rows with a score, the earlier
\* has the strictly greater score.
C10_AsStated ==
    (ret.op = "hot_problems") =>
        \A i \in DOMAIN ret.hot :
            (/\ i + 1 \in DOMAIN ret.hot
             /\ ~ret.hot[i].ordering.isNull
             /\ ~ret.hot[i + 1].ordering.isNull)
            => ret.hot[i].ordering.val > ret.hot[i + 1].ordering.val

\* C10 amended: the returned sequence is descending by score, not strictly:
\* of two adjacent returned rows the earlier has a score greater than or equal
\* to the later's (rows of equal score are adjacent in either order), and a row
\* whose score is NULL, its submission_volume being 0, comes after every row
\* that has a score.
C10_DescendingWithTies ==
    (ret.op = "hot_problems") =>
        \A i \in DOMAIN ret.hot :
            (i + 1 \in DOMAIN ret.hot /\ ~ret.hot[i + 1].ordering.isNull) =>
                /\ ~ret.hot[i].ordering.isNull
                /\ ret.hot[i].ordering.val >= ret.hot[i + 1].ordering.val

\* C10 witness: two rows were returned, the first with the strictly greater
\* score.
C10_Witness ==
    /\ ret.op = "hot_problems" /\ Len(ret.hot) = 2
    /\ ~ret.hot[1].ordering.isNull /\ ~ret.hot[2].ordering.isNull
    /\ ret.hot[1].ordering.val > ret.hot[2].ordering.val

\* C11: every call hot_problems(duration, limit), answered from the cache or
\* computed, returns at most `limit` elements.
C11_AtMostLimit ==
    (ret.op = "hot_problems") => Len(ret.hot) <= ret.args[2]

\* C11 witness: a call with limit 1 was answered from the cache with one row
\* while the cache also holds, for the same duration and limit 2, two rows.
C11_Witness ==
    /\ ret.op = "hot_problems" /\ ret.hit
    /\ ret.args[2] = 1 /\ Len(ret.hot) = 1
    /\ HotKey(ret.args[1], 2) \in DOMAIN cache
    /\ Len(cache[HotKey(ret.args[1], 2)].value) = 2

\* No public problem has a submission inside the window of `duration` ending
\* at t.
NoCandidatesAt(duration, t) ==
    \A p \in Problems :
        problems[p].is_public => SubmittersAt(p, duration, t) = {}

\* C12 as stated: whenever no public problem has a submission inside the
\* window, hot_problems returns the empty sequence and writes nothing.
C12_AsStated ==
    (ret.op = "hot_problems" /\ NoCandidatesAt(ret.args[1], now)) =>
        /\ ret.hot = <<>>
        /\ "cache.set" \notin ret.effects

\* C12 amended: when the cache holds no live entry for the key and no public
\* problem has a submission inside the window, hot_problems returns the empty
\* sequence without failing and writes nothing to the cache: no entry for the
\* key is live afterwards, and the next call with the same duration and limit
\* queries the database again.
C12_EmptyWindowNotCached ==
    [][/\ (/\ ret'.op = "hot_problems" /\ ~ret'.hit
           /\ NoCandidatesAt(ret'.args[1], now'))
          => /\ ret'.hot = <<>> /\ ~ret'.raised
             /\ ret'.effects = {"cache.get", "db"}
             /\ cache' = cache
             /\ ~CacheHas(cache', HotKey(ret'.args[1], ret'.args[2]), now')
       /\ (/\ ret.op = "hot_problems" /\ ~ret.hit
           /\ NoCandidatesAt(ret.args[1], now)
           /\ ret'.op = "hot_problems" /\ ret'.args = ret.args)
          => ~ret'.hit /\ "db" \in ret'.effects]_vars

\* C12 witness: a call found no live entry and returned the empty sequence
\* while the table holds submissions, none of them inside the window on a
\* public problem, and the cache holds no entry for the key afterwards.
C12_Witness ==
    /\ ret.op = "hot_problems" /\ ~ret.hit
    /\ NoCandidatesAt(ret.args[1], now)
    /\ submissions # {}
    /\ ret.hot = <<>>
    /\ HotKey(ret.args[1], ret.args[2]) \notin DOMAIN cache

\* submission_volume of problem p in the window of `duration` ending at t.
SubmissionVolumeAt(p, duration, t) ==
    Cardinality({s \in submissions :
                    /\ s.problem = p /\ s.date > t - duration
                    /\ s.result \in {"AC", "WA", "IR", "RTE", "TLE", "OLE"}})

\* C18: a problem that passes the floor with a submission_volume of 0 reaches
\* the score with a zero divisor and nothing puts 0 in place of the quality
\* term: a returned row of such a problem has no score (NULL), a returned row
\* of any other problem has one, and a call fails in the query only when such
\* a problem is among the rows.
C18_ZeroDivisorUnguarded ==
    (ret.op = "hot_problems") =>
        LET duration == ret.args[1]
            key == HotKey(ret.args[1], ret.args[2])
        IN /\ \A i \in DOMAIN ret.hot :
                 /\ key \in DOMAIN cache
                 /\ ret.hot[i].ordering.isNull
                      <=> SubmissionVolumeAt(ret.hot[i].id, duration,
                                             cache[key].stored) = 0
           /\ ret.raised =>
                 \E p \in Problems :
                     /\ problems[p].is_public
                     /\ PassesFloor(Cardinality(SubmittersAt(p, duration, now)),
                                    MostSubmittersAt(duration, now))
                     /\ SubmissionVolumeAt(p, duration, now) = 0

\* C18 witness: a computed ranking returned a row whose problem has
\* submitters above the floor and a submission_volume of 0.
C18_Witness ==
    /\ ret.op = "hot_problems" /\ ~ret.hit
    /\ \E i \in DOMAIN ret.hot :
          /\ ret.hot[i].ordering.isNull
          /\ ret.hot[i].unique_user_count > 1
          /\ SubmissionVolumeAt(ret.hot[i].id, ret.args[1], now) = 0

\* C14: user_editable_ids never reads or writes the cache, and every call
\* returns exactly the problems of which the profile is, at the time of the
\* call, an author or a curator: a change of the authors or curators shows in
\* the next call.
C14_EditableUncachedAndCurrent ==
    [][(ret'.op = "user_editable_ids") =>
          /\ cache' = cache
          /\ ret'.effects = {"db"} /\ ~ret'.hit
          /\ ret'.ids = {p \in DOMAIN problems' :
                            \/ ret'.args[1] \in problems'[p].authors
                            \/ ret'.args[1] \in problems'[p].curators}]_vars

\* C14 witness: with an entry in the cache, a call returned a problem of which
\* the profile is a curator and not an author, and not the other problem.
C14_Witness ==
    /\ ret.op = "user_editable_ids"
    /\ cache # EmptyCache
    /\ \E p \in Problems :
          /\ p \in ret.ids
          /\ ret.args[1] \in problems[p].curators
          /\ ret.args[1] \notin problems[p].authors
    /\ \E p \in Problems : p \notin ret.ids

\* The submissions of profile P on problem p.
SubmissionsOf(P, p) == {s \in submissions : s.user = P /\ s.problem = p}

\* C15: on a cache miss user_attempted_ids returns a mapping whose keys are
\* exactly the problems on which the profile has a submission and on which the
\* most points any of its submissions got is less than the problem's; under a
\* key, achieved_points is that most, max_points the problem's points, and
\* last_submission the largest id of the profile's submissions on the problem.
C15_AttemptedMapping ==
    (ret.op = "user_attempted_ids" /\ ~ret.hit) =>
        LET P == ret.args[1] IN
        /\ \A p \in Problems :
              p \in DOMAIN ret.map <=>
                 /\ SubmissionsOf(P, p) # {}
                 /\ \A s \in SubmissionsOf(P, p) :
                       s.points < problems[p].points
        /\ \A p \in DOMAIN ret.map :
              /\ \E s \in SubmissionsOf(P, p) :
                    s.points = ret.map[p].achieved_points
              /\ \A s \in SubmissionsOf(P, p) :
                    /\ s.points <= ret.map[p].achieved_points
                    /\ s.id <= ret.map[p].last_submission
              /\ \E s \in SubmissionsOf(P, p) :
                    s.id = ret.map[p].last_submission
              /\ ret.map[p].max_points = problems[p].points

\* C15 witness: a computed mapping has a problem on which the profile's
\* earlier submission got more points than its last one.
C15_Witness ==
    /\ ret.op = "user_attempted_ids" /\ ~ret.hit
    /\ \E p \in DOMAIN ret.map :
          \E s, t \in SubmissionsOf(ret.args[1], p) :
              /\ s.id < t.id /\ s.points > t.points
              /\ ret.map[p].achieved_points = s.points
              /\ ret.map[p].last_submission = t.id

\* user_completed_ids and user_attempted_ids are called for the same profile
\* one right after the other, in either order, and name a problem both.
Overlap(first, second) ==
    /\ first.op \in {"user_completed_ids", "user_attempted_ids"}
    /\ second.op \in {"user_completed_ids", "user_attempted_ids"}
    /\ first.op # second.op
    /\ first.args = second.args
    /\ (first.ids \cup second.ids)
          \cap (DOMAIN first.map \cup DOMAIN second.map) # {}

\* C19 as stated: called one after the other for the same profile, each
\* answered by a computation or from its cache entry, the two never name the
\* same problem.
C19_AsStated ==
    [][~Overlap(ret, ret')]_vars

\* C19 amended: when both calls miss their cache entries, so that both are
\* computed from the Submission table as it is, no problem is both in the set
\* user_completed_ids returns and a key of the mapping user_attempted_ids
\* returns.
C19_DisjointWhenComputed ==
    [][(~ret.hit /\ ~ret'.hit) => ~Overlap(ret, ret')]_vars

\* C19 witness: user_attempted_ids was computed and has a key while the
\* entry of user_completed_ids, stored at the same time from the same table,
\* holds another problem.
C19_Witness ==
    /\ ret.op = "user_attempted_ids" /\ ~ret.hit
    /\ DOMAIN ret.map # {}
    /\ UserCompleteKey(ret.args[1]) \in DOMAIN cache
    /\ cache[UserCompleteKey(ret.args[1])].stored = now
    /\ cache[UserCompleteKey(ret.args[1])].value
          = AcceptedFullPoints(ret.args[1])
    /\ cache[UserCompleteKey(ret.args[1])].value # {}

\* The operations that keep their result in the cache.
CachedOps ==
    {"contest_completed_ids", "user_completed_ids", "contest_attempted_ids",
     "user_attempted_ids", "hot_problems", "get_related_problems"}

\* The key, the time-to-live and the returned value of a call of one of them,
\* and whether that value is empty.
KeyOf(call) ==
    CASE call.op = "contest_completed_ids" -> ContestCompleteKey(call.args[1])
      [] call.op = "user_completed_ids" -> UserCompleteKey(call.args[1])
      [] call.op = "contest_attempted_ids" -> ContestAttemptedKey(call.args[1])
      [] call.op = "user_attempted_ids" -> UserAttemptedKey(call.args[1])
      [] call.op = "hot_problems" -> HotKey(call.args[1], call.args[2])
      [] call.op = "get_related_problems" ->
             RelatedKey(call.args[1], call.args[2])

TTLOf(call) ==
    CASE call.op = "contest_completed_ids" -> ContestCompleteTTL
      [] call.op = "user_completed_ids" -> UserCompleteTTL
      [] call.op = "contest_attempted_ids" -> ContestAttemptedTTL
      [] call.op = "user_attempted_ids" -> UserAttemptedTTL
      [] call.op = "hot_problems" -> HotTTL
      [] call.op = "get_related_problems" -> RelatedTTL

ValueOf(call) ==
    CASE call.op \in {"contest_completed_ids", "user_completed_ids"} -> call.ids
      [] call.op \in {"contest_attempted_ids", "user_attempted_ids"} -> call.map
      [] call.op = "hot_problems" -> call.hot
      [] call.op = "get_related_problems" -> call.list

EmptyResult(call) ==
    CASE call.op \in {"contest_completed_ids", "user_completed_ids"} ->
             call.ids = {}
      [] call.op \in {"contest_attempted_ids", "user_attempted_ids"} ->
             DOMAIN call.map = {}
      [] call.op = "hot_problems" -> call.hot = <<>>
      [] call.op = "get_related_problems" -> call.list = <<>>

\* C13 as stated: an empty result that a cached operation computed on a miss
\* is in the cache afterwards, under the operation's key and time-to-live.
C13_AsStated ==
    (/\ ret.op \in CachedOps
     /\ ~ret.hit /\ ~ret.raised /\ ~ret.isNone
     /\ EmptyResult(ret)) =>
        /\ KeyOf(ret) \in DOMAIN cache
        /\ cache[KeyOf(ret)] = [value |-> ValueOf(ret), stored |-> now,
                                timeout |-> TTLOf(ret)]

\* C13 amended: a result that a cached operation computed on a miss, empty or
\* not, is stored under the operation's key with the operation's time-to-live
\* -- for hot_problems, when a public problem has a submission in the window,
\* which includes the case of the floor removing every candidate; with no
\* submission in the window hot_problems stores nothing. A call that finds a
\* live entry, holding an empty value or not, returns the entry's value and
\* does nothing else.
C13_ResultsCachedEmptyOrNot ==
    [][(ret'.op \in CachedOps /\ ~ret'.isNone) =>
          /\ CacheHas(cache, KeyOf(ret'), now) =>
                /\ ret'.hit
                /\ ValueOf(ret') = cache[KeyOf(ret')].value
                /\ ret'.effects = {"cache.get"}
                /\ cache' = cache
          /\ (/\ ~CacheHas(cache, KeyOf(ret'), now)
              /\ ~ret'.raised
              /\ ~(/\ ret'.op = "hot_problems"
                   /\ NoCandidatesAt(ret'.args[1], now))) =>
                /\ ~ret'.hit
                /\ KeyOf(ret') \in DOMAIN cache'
                /\ cache'[KeyOf(ret')] =
                       [value |-> ValueOf(ret'), stored |-> now,
                        timeout |-> TTLOf(ret')]]_vars

\* C13 witness: hot_problems was answered from an entry stored earlier that
\* holds the empty ranking, computed when a public problem had a submission
\* in the window and the floor removed every candidate.
C13_Witness ==
    /\ ret.op = "hot_problems" /\ ret.hit /\ ret.hot = <<>>
    /\ cache[KeyOf(ret)].stored < now
    /\ ~NoCandidatesAt(ret.args[1], cache[KeyOf(ret)].stored)

\* The request whose cache.set came last.
LastWriter == history.writes[Len(history.writes)]

\* C16: two requests of the same operation and key that both read the cache
\* before any cache.set both get a miss; a request that got a miss is held
\* back by nothing, its query and then its cache.set can always be taken, and
\* when it has finished it has written; and the entry in the cache is the one
\* the last writer stored, whatever an earlier writer stored.
C16_StampedeLastWriteWins ==
    /\ \A r \in DOMAIN requests :
          /\ (requests[r].pc # "get" /\ requests[r].seen = 0)
                => requests[r].miss
          /\ requests[r].pc = "query" => ENABLED Query(r)
          /\ requests[r].pc = "set" => ENABLED Set(r)
          /\ (requests[r].pc = "done" /\ requests[r].miss)
                => r \in Range(history.writes)
    /\ (\A r \in DOMAIN requests :
           requests[r].pc = "done" /\ requests[r].seen = 0)
          => /\ Len(history.writes) = Cardinality(DOMAIN requests)
             /\ \A key \in DOMAIN cache :
                   /\ cache[key].value = requests[LastWriter].result
                   /\ cache[key].stored = requests[LastWriter].stored

\* C16 witness: both requests read before any cache.set and have finished;
\* they computed different sets, and the cache holds the set of the one that
\* wrote last, which ran its query first.
C16_Witness ==
    /\ \A r \in DOMAIN requests :
          requests[r].pc = "done" /\ requests[r].seen = 0
    /\ Len(history.writes) = 2
    /\ requests[history.writes[1]].result # requests[history.writes[2]].result
    /\ requests[history.writes[2]].queried < requests[history.writes[1]].queried
    /\ UserCompleteKey(1) \in DOMAIN cache
    /\ cache[UserCompleteKey(1)].value = requests[history.writes[2]].result

\* S was the completed set at some recorded time from a to b.
StoodWithin(S, a, b) ==
    \E h \in history.stood : h[2] = S /\ a <= h[1] /\ h[1] <= b

\* C17 as stated: a value user_completed_ids returned was the true completed
\* set at some instant no more than 86400 seconds before the return.
C17_AsStated ==
    \A r \in DOMAIN requests :
        requests[r].pc = "done" =>
            StoodWithin(requests[r].result,
                        requests[r].retAt - UserCompleteTTL, requests[r].retAt)

\* C17 amended: a value user_completed_ids returned was the true completed
\* set when the call that computed it ran its query; a value answered from
\* the cache is returned less than 86400 seconds after it was stored, so
\* that instant is earlier than the return by less than 86400 seconds plus
\* the time the computing call took from its query to its cache.set, and a
\* value the call computed itself, by exactly that time.
C17_StalenessWithinTTLAndLag ==
    \A r \in DOMAIN requests :
        requests[r].pc = "done" =>
            /\ <<requests[r].asOf, requests[r].result>> \in history.stood
            /\ requests[r].asOf <= requests[r].retAt
            /\ requests[r].retAt - requests[r].asOf
                  < UserCompleteTTL + requests[r].lag
            /\ requests[r].miss =>
                  requests[r].retAt - requests[r].asOf = requests[r].lag

\* C17 witness: a request was answered from the cache with a set that had
\* stopped being the completed set more than 86400 seconds before.
C17_Witness ==
    \E r \in DOMAIN requests :
        /\ requests[r].pc = "done" /\ ~requests[r].miss
        /\ requests[r].result # AcceptedFullPoints(requests[r].profile)
        /\ requests[r].retAt - requests[r].asOf > UserCompleteTTL
        /\ requests[r].lag > 0

====
